---- MODULE Spec2Model ----
(***************************************************************************)
(* Model of the orchestration core of mirage: the pipeline resolver        *)
(* (App.load), the parameter router (App._set / App.set), the pipeline     *)
(* executor (App.run) and the background task manager (TaskManager, Task). *)
(*                                                                         *)
(* A parameter name is kept as the sequence of its "."-separated parts     *)
(* (what name.split(".") returns); JoinDot gives back the string that is   *)
(* used as a dictionary key.  A load expression is kept as the sequence of *)
(* its "|"-separated components (what module_name.split("|") returns).     *)
(* Python's None is the empty tuple, a present value v is <<v>>.           *)
(***************************************************************************)
EXTENDS Naturals, Sequences, FiniteSets, TLC

VARIABLES
    modules,           \* App.modules: the installed pipeline, a sequence of slots
    heap,              \* the unit instances alive, by object identity
    loaded_shortcuts,  \* App.loaded_shortcuts: the alias table (mapping values are mutable)
    last,              \* the last command issued to the interpreter and its outcome
    runPos,            \* App.run: where the interpreter is in run ([pc |-> "idle"] outside it)
    carried,           \* App.run: the local dictionary args (carried outputs)
    runLog,            \* App.run: the stages executed so far in the current run
    prevRun,           \* the stages of the last run that ended since the last load
    tasks,             \* TaskManager.tasks: name -> Task
    order,             \* insertion order of the keys of TaskManager.tasks
    procs,             \* the operating system's processes below the orchestrator
    nextPid,           \* next pid the operating system hands out
    mgr,               \* position of the orchestrator inside stopAllTasks
    ret,               \* the last TaskManager call and what it returned
    config,            \* Config.config: the configuration dictionary
    configFile,        \* what config.json holds
    cfgLog             \* the calls of Config.get and Config.set so far, with what they returned

appVars  == <<modules, heap, loaded_shortcuts, last, runPos, carried, runLog, prevRun>>
taskVars == <<tasks, order, procs, nextPid, mgr, ret>>
cfgVars  == <<config, configFile, cfgLog>>
vars     == <<modules, heap, loaded_shortcuts, last, runPos, carried, runLog, prevRun,
              tasks, order, procs, nextPid, mgr, ret, config, configFile, cfgLog>>

None == <<>>
Some(v) == <<v>>

\* dict[k] = v
Put(d, k, v) == (k :> v) @@ d

RECURSIVE JoinDot(_)
JoinDot(name) ==
    IF Len(name) = 1 THEN name[1]
    ELSE name[1] \o "." \o JoinDot(Tail(name))

(***************************************************************************)
(* The environment the application is constructed with.                   *)
(***************************************************************************)

\* Loader.modulesList: the unit classes, by what their init() sets up.
modulesList ==
    [ x |-> [args |-> [A |-> "d0", B |-> "d0"], dynamicArgs |-> FALSE, wireless |-> FALSE],
      w |-> [args |-> [A |-> "d0"],             dynamicArgs |-> FALSE, wireless |-> TRUE],
      d |-> [args |-> <<>>,                     dynamicArgs |-> TRUE,  wireless |-> FALSE] ]

\* Config.datas: the per-unit argument values of the configuration file.
datas == [ w |-> [A |-> "c0"] ]

\* Config.shortcuts as generateShortcuts builds it: modules is the chain
\* (already split on "|"), mapping gives for each exposed parameter the
\* targets ("parameters", each split on ".") and the default ("value").
ConfigShortcuts ==
    [ s1 |-> [modules |-> <<"x">>,
              mapping |-> [P |-> [parameters |-> << <<"A">>, <<"B">> >>, value |-> None],
                           Q |-> [parameters |-> << <<"A">>, <<"C">> >>, value |-> None]]],
      s2 |-> [modules |-> <<"x", "w">>,
              mapping |-> [P |-> [parameters |-> << <<"x1", "A">>, <<"w2", "A">> >>,
                                  value |-> None],
                           Q |-> [parameters |-> << <<"A">> >>, value |-> None]]],
      s3 |-> [modules |-> <<"x", "nope">>,
              mapping |-> <<>>],
      s4 |-> [modules |-> <<"x">>,
              mapping |-> [A |-> [parameters |-> << <<"A">>, <<"B">> >>, value |-> Some("c1")]]],
      s5 |-> [modules |-> <<"x">>,
              mapping |-> [P |-> [parameters |-> << <<"A">> >>, value |-> Some("c1")]]],
      s6 |-> [modules |-> <<"d">>,
              mapping |-> [P |-> [parameters |-> << <<"P">> >>, value |-> Some("c1")]]],
      x  |-> [modules |-> <<"w">>,
              mapping |-> [A |-> [parameters |-> << <<"A">> >>, value |-> None]]] ]

\* Iteration order of a mapping dictionary (insertion order of the file).
MappingKeys(m) ==
    CASE m = "s3" -> <<>>
      [] m \in {"s4", "x"} -> <<"A">>
      [] m \in {"s5", "s6"} -> <<"P">>
      [] OTHER -> <<"P", "Q">>

\* wireless.SDRDevice.SDR_PARAMETERS.keys(): the reserved device keys.
SDR_PARAMETERS == {"GAIN"}

(***************************************************************************)
(* Inputs of the commands.                                                 *)
(***************************************************************************)
\* The load expressions tried, each the sequence of its components.
LoadExprs ==
    { <<"x">>, <<"w">>, <<"s1">>, <<"s2">>, <<"s3">>, <<"nope">>,
      <<"x", "x">>, <<"x", "s1">>, <<"s1", "s1">>, <<"s2", "x">>,
      <<"x", "nope">>, <<"nope", "x">>, <<"s1", "nope">> }

Values == {"v1", "v2"}

\* The parameter names tried, bare or after a slot prefix.
ArgNames == {"A", "P", "Q", "GAIN"}

(***************************************************************************)
(* Objects.                                                                *)
(***************************************************************************)

\* The identity of a newly constructed object: one no live object has.  The
\* objects of the installed pipeline (heap) all have odd or all have even
\* identities; a new object gets the least free identity of the other kind.
FreshId(h) ==
    LET kind == IF \E i \in DOMAIN heap : i % 2 = 1 THEN 0 ELSE 1
        free == {i \in 1..(2 * Cardinality(DOMAIN h) + 2) : i \notin DOMAIN h /\ i % 2 = kind}
    IN CHOOSE i \in free : \A j \in free : i <= j

\* Module.__init__ / WirelessModule.__init__ followed by the class's init().
NewModule(cls) ==
    [cls |-> cls, args |-> modulesList[cls].args,
     dynamicArgs |-> modulesList[cls].dynamicArgs,
     wireless |-> modulesList[cls].wireless, sdrConfig |-> <<>>]

IsUnitSlot(slot)  == "module" \in DOMAIN slot
IsAliasSlot(slot) == "shortcut" \in DOMAIN slot

\* The object identities a pipeline refers to.
IdsOfSlot(slot) ==
    IF IsUnitSlot(slot) THEN {slot.module[i] : i \in 1..Len(slot.module)}
    ELSE UNION { {slot.shortcut[j].module[i] : i \in 1..Len(slot.shortcut[j].module)}
                 : j \in 1..Len(slot.shortcut) }

IdsOf(slots) == UNION { IdsOfSlot(slots[i]) : i \in 1..Len(slots) }

\* What stays of the heap once only `slots` refers to objects.
Collect(h, slots) == [i \in (DOMAIN h) \cap IdsOf(slots) |-> h[i]]

(***************************************************************************)
(* App._set: the parameter router.  It works on a state st = [heap, sc]    *)
(* (the unit instances and the alias table) and gives [res, heap, sc]:     *)
(* res is "True", "False" or "None" for a returned value and the name of   *)
(* the exception for a raised one.                                         *)
(***************************************************************************)
Exceptions == {"NoModuleLoaded", "IncorrectParameter", "MultipleModulesLoaded", "ValueError"}

Result(res, st) == [res |-> res, heap |-> st.heap, sc |-> st.sc]

\* module["module"].args[name] = value
SetArg(st, id, key, value) ==
    [st EXCEPT !.heap[id].args = Put(@, key, value)]

\* SetSdr as it would be if the reserved key went to the argument table.
SetSdrAsArg(st, id, key, value) ==
    [st EXCEPT !.heap[id].args = Put(@, key, value)]

\* module["module"].sdrConfig[name] = value
SetSdr(st, id, key, value) ==
    [st EXCEPT !.heap[id].sdrConfig = Put(@, key, value)]

\* shortcut_mapping["value"] = value
Commit(st, m, key, value) ==
    [st EXCEPT !.sc[m].mapping[key].value = Some(value)]

\* MatchingSlot as it would be if the display name were not compared.
MatchingSlotFirst(modules_list, module_name) == 1

\* MatchingSlot as it would be if a name no slot has went to the last slot.
MatchingSlotOrLast(modules_list, module_name) ==
    LET hit(i) == LET module == modules_list[i] IN
                    \/ IsUnitSlot(module) /\ module.module # None /\ module.name = module_name
                    \/ IsAliasSlot(module) /\ module.name = module_name
        S == {i \in 1..Len(modules_list) : hit(i)}
    IN IF S = {} THEN Len(modules_list) ELSE CHOOSE i \in S : \A j \in S : i <= j

\* The first slot of modules_list the loop of the multi-slot case stops at
\* for module_name, 0 when it runs to its end.
MatchingSlot(modules_list, module_name) ==
    LET hit(i) == LET module == modules_list[i] IN
                    \/ IsUnitSlot(module) /\ module.module # None /\ module.name = module_name
                    \/ IsAliasSlot(module) /\ module.name = module_name
        S == {i \in 1..Len(modules_list) : hit(i)}
    IN IF S = {} THEN 0 ELSE CHOOSE i \in S : \A j \in S : i <= j

RECURSIVE _set(_, _, _, _)
RECURSIVE FanOut(_, _, _, _, _)

\* FanOut as it would be if the loop stopped after the first target.
FanOutFirst(parameters, i, value, members, acc) ==
    IF i > 1 \/ acc.res # "True" THEN acc
    ELSE _set(parameters[1], value, members, [heap |-> acc.heap, sc |-> acc.sc])

\* success = True; for parameters_name in ...: success = success and self._set(...)
\* acc is the result so far; an exception ends the loop, a false success
\* short-circuits the remaining calls.
FanOut(parameters, i, value, members, acc) ==
    IF i > Len(parameters) \/ acc.res # "True" THEN acc
    ELSE FanOut(parameters, i + 1, value, members,
                _set(parameters[i], value, members, [heap |-> acc.heap, sc |-> acc.sc]))

\* AliasSet as it would be if the value were committed whatever success is.
AliasSetCommits(key, value, module, st) ==
    IF key \in DOMAIN st.sc[module.mapping].mapping THEN
        LET r == FanOut(st.sc[module.mapping].mapping[key].parameters, 1, value,
                        module.shortcut, Result("True", st))
        IN Result(r.res, Commit([heap |-> r.heap, sc |-> r.sc], module.mapping, key, value))
    ELSE Result("IncorrectParameter", st)

\* The body shared by the two alias branches: fan the value out to the
\* targets, then commit the mapping's value if every call returned True.
AliasSet(key, value, module, st) ==
    IF key \in DOMAIN st.sc[module.mapping].mapping THEN
        LET shortcut_mapping == st.sc[module.mapping].mapping[key]
            r == FanOut(shortcut_mapping.parameters, 1, value, module.shortcut,
                        Result("True", st))
        IN IF r.res = "True"
           THEN Result("True", Commit([heap |-> r.heap, sc |-> r.sc], module.mapping, key, value))
           ELSE r
    ELSE Result("IncorrectParameter", st)

\* UnitSet as it would be if every name were accepted as an argument.
UnitSetAnyName(key, value, module, st) ==
    Result("True", SetArg(st, module.module[1], key, value))

\* The one-slot case for a unit slot: the argument table if the unit takes
\* the name, the device configuration for a reserved key of a wireless
\* unit, IncorrectParameter otherwise.
UnitSet(key, value, module, st) ==
    LET id == module.module[1] IN
    IF st.heap[id].dynamicArgs \/ key \in DOMAIN st.heap[id].args
    THEN Result("True", SetArg(st, id, key, value))
    ELSE IF key \in SDR_PARAMETERS /\ st.heap[id].wireless
    THEN Result("True", SetSdr(st, id, key, value))
    ELSE Result("IncorrectParameter", st)

_set(name, value, modules_list, st) ==
    IF Len(modules_list) = 0 THEN Result("NoModuleLoaded", st)
    ELSE IF Len(modules_list) = 1 THEN
        LET module == modules_list[1]
            key == JoinDot(name)
        IN IF IsUnitSlot(module) /\ module.module # None THEN UnitSet(key, value, module, st)
           ELSE IF IsAliasSlot(module) THEN AliasSet(key, value, module, st)
           ELSE Result("False", st)
    ELSE IF Len(name) > 1 THEN
        IF Len(name) # 2 THEN Result("ValueError", st)
        ELSE LET i == MatchingSlot(modules_list, name[1]) IN
             IF i = 0 THEN Result("None", st)
             ELSE IF IsUnitSlot(modules_list[i])
             THEN _set(<<name[2]>>, value, <<modules_list[i]>>, st)
             ELSE AliasSet(name[2], value, modules_list[i], st)
    ELSE Result("MultipleModulesLoaded", st)

(***************************************************************************)
(* Loader.load and App.load: the pipeline resolver.                        *)
(***************************************************************************)

\* LoaderLoad as it would be if a name the alias table has were left to it.
LoaderLoadAliasFirst(moduleName, h) ==
    IF moduleName \in DOMAIN modulesList /\ moduleName \notin DOMAIN ConfigShortcuts
    THEN LET id == FreshId(h) IN
         [heap |-> Put(h, id, NewModule(moduleName)), output |-> Some(id)]
    ELSE [heap |-> h, output |-> None]

\* Loader.load(moduleName): a new instance, or None.  Gives the heap with
\* the instance in it and the reference.
LoaderLoad(moduleName, h) ==
    IF moduleName \in DOMAIN modulesList
    THEN LET id == FreshId(h) IN
         [heap |-> Put(h, id, NewModule(moduleName)), output |-> Some(id)]
    ELSE [heap |-> h, output |-> None]

\* DisplayName as it would be if the ordinal were always appended.
DisplayNameAlways(m, counter, n) == m \o ToString(counter)

\* m + str(counter) if len(modules) > 1 else m
DisplayName(m, counter, n) == IF n > 1 THEN m \o ToString(counter) ELSE m

\* for argument in output.args: if dataExists(m, argument): args[argument] = getData(m, argument)
ApplyConfig(m, args) ==
    [a \in DOMAIN args |->
        IF m \in DOMAIN datas /\ a \in DOMAIN datas[m] THEN datas[m][a] ELSE args[a]]

\* The inner loop over a mapping's arguments, for the member just appended:
\* every argument whose value is not None is set on that member alone.
RECURSIVE PreSeed(_, _, _, _)
PreSeed(m, k, member, acc) ==
    IF k > Len(MappingKeys(m)) \/ acc.res \in Exceptions THEN acc
    ELSE LET argument == MappingKeys(m)[k]
             mapping == acc.sc[m].mapping[argument]
         IN IF mapping.value # None
            THEN PreSeed(m, k + 1, member,
                         _set(<<argument>>, mapping.value[1], <<member>>,
                              [heap |-> acc.heap, sc |-> acc.sc]))
            ELSE PreSeed(m, k + 1, member, acc)

\* The loop over the chain of shortcut m.  acc = [res, heap, sc, shortcut_modules].
RECURSIVE LoadMembers(_, _, _)
LoadMembers(m, shortcut_counter, acc) ==
    LET shortcut_modules_list == acc.sc[m].modules IN
    IF shortcut_counter > Len(shortcut_modules_list) \/ acc.res \in Exceptions THEN acc
    ELSE LET n == shortcut_modules_list[shortcut_counter]
             ld == LoaderLoad(n, acc.heap)
             member == [name |-> DisplayName(n, shortcut_counter, Len(shortcut_modules_list)),
                        module |-> ld.output]
             r == PreSeed(m, 1, member, [res |-> "True", heap |-> ld.heap, sc |-> acc.sc])
         IN LoadMembers(m, shortcut_counter + 1,
                        [res |-> IF r.res \in Exceptions THEN r.res ELSE "True",
                         heap |-> r.heap, sc |-> r.sc,
                         shortcut_modules |-> Append(acc.shortcut_modules, member)])

\* The loop over the components.  acc = [res, heap, sc, tmp_modules, counter];
\* res is "ok", "unknown" (no_error = False) or the exception that left load.
RECURSIVE LoadLoop(_, _, _)
LoadLoop(mods, k, acc) ==
    IF k > Len(mods) \/ acc.res # "ok" THEN acc
    ELSE LET m == mods[k]
             ld == LoaderLoad(m, acc.heap)
             name == DisplayName(m, acc.counter, Len(mods))
         IN IF ld.output # None THEN
                LET id == ld.output[1]
                    h == [ld.heap EXCEPT ![id].args = ApplyConfig(m, @)]
                IN LoadLoop(mods, k + 1,
                            [acc EXCEPT !.heap = h,
                                        !.tmp_modules = Append(@, [name |-> name, module |-> ld.output]),
                                        !.counter = @ + 1])
            ELSE IF m \in DOMAIN acc.sc THEN
                LET r == LoadMembers(m, 1, [res |-> "True", heap |-> acc.heap, sc |-> acc.sc,
                                            shortcut_modules |-> <<>>])
                IN IF r.res \in Exceptions
                   THEN [acc EXCEPT !.res = r.res, !.heap = r.heap, !.sc = r.sc]
                   ELSE LoadLoop(mods, k + 1,
                            [acc EXCEPT !.heap = r.heap, !.sc = r.sc,
                                        !.tmp_modules = Append(@, [name |-> name,
                                                                   shortcut |-> r.shortcut_modules,
                                                                   mapping |-> m]),
                                        !.counter = @ + 1])
            ELSE [acc EXCEPT !.res = "unknown"]

\* Whether a command may be issued: the interpreter is not inside run.
Idle == runPos.pc = "idle"

\* load as it would be if tmp_modules were installed without the no_error test.
loadInstallsAnyway(expr) ==
    /\ runPos.pc = "idle"
    /\ LET r == LoadLoop(expr, 1, [res |-> "ok", heap |-> heap, sc |-> loaded_shortcuts,
                                   tmp_modules |-> <<>>, counter |-> 1])
           installed == IF r.res \in {"ok", "unknown"} THEN r.tmp_modules ELSE modules
       IN /\ modules' = installed
          /\ heap' = Collect(r.heap, installed)
          /\ loaded_shortcuts' = r.sc
          /\ last' = [op |-> "load", res |-> r.res]
    /\ prevRun' = <<>>
    /\ UNCHANGED <<runPos, carried, runLog>>
    /\ UNCHANGED taskVars
    /\ UNCHANGED cfgVars

\* load as it would be if it took the alias table from the configuration
\* again instead of the one it has.
loadFreshTable(expr) ==
    /\ runPos.pc = "idle"
    /\ LET r == LoadLoop(expr, 1, [res |-> "ok", heap |-> heap, sc |-> ConfigShortcuts,
                                   tmp_modules |-> <<>>, counter |-> 1])
           installed == IF r.res = "ok" THEN r.tmp_modules ELSE modules
       IN /\ modules' = installed
          /\ heap' = Collect(r.heap, installed)
          /\ loaded_shortcuts' = r.sc
          /\ last' = [op |-> "load", res |-> r.res]
    /\ prevRun' = <<>>
    /\ UNCHANGED <<runPos, carried, runLog>>
    /\ UNCHANGED taskVars
    /\ UNCHANGED cfgVars

\* App.load(module_name)
load(expr) ==
    /\ Idle
    /\ LET r == LoadLoop(expr, 1, [res |-> "ok", heap |-> heap, sc |-> loaded_shortcuts,
                                   tmp_modules |-> <<>>, counter |-> 1])
           installed == IF r.res = "ok" THEN r.tmp_modules ELSE modules
       IN /\ modules' = installed
          /\ heap' = Collect(r.heap, installed)
          /\ loaded_shortcuts' = r.sc
          /\ last' = [op |-> "load", res |-> r.res]
    /\ prevRun' = <<>>
    /\ UNCHANGED <<runPos, carried, runLog>>
    /\ UNCHANGED taskVars
    /\ UNCHANGED cfgVars

\* The names a user may give to set: bare, or prefixed by a slot's display
\* name or by a name no slot has.
SetNames ==
    {<<a>> : a \in ArgNames}
    \cup {<<modules[i].name, a>> : i \in 1..Len(modules), a \in ArgNames}
    \cup {<<"zz", a>> : a \in ArgNames}

\* set as it would be if a bare name among several slots went to the first.
setBareToFirst(name, value) ==
    /\ runPos.pc = "idle"
    /\ LET r == _set(name, value,
                     IF Len(modules) > 1 /\ Len(name) = 1 THEN <<modules[1]>> ELSE modules,
                     [heap |-> heap, sc |-> loaded_shortcuts])
       IN /\ heap' = r.heap
          /\ loaded_shortcuts' = r.sc
          /\ last' = [op |-> "set", res |-> r.res]
    /\ UNCHANGED <<modules, runPos, carried, runLog, prevRun>>
    /\ UNCHANGED taskVars
    /\ UNCHANGED cfgVars

\* set as it would be if it returned False without a pipeline to look at.
setSkipsEmpty(name, value) ==
    /\ runPos.pc = "idle"
    /\ LET r == IF Len(modules) = 0 THEN Result("False", [heap |-> heap, sc |-> loaded_shortcuts])
                ELSE _set(name, value, modules, [heap |-> heap, sc |-> loaded_shortcuts])
       IN /\ heap' = r.heap
          /\ loaded_shortcuts' = r.sc
          /\ last' = [op |-> "set", res |-> r.res]
    /\ UNCHANGED <<modules, runPos, carried, runLog, prevRun>>
    /\ UNCHANGED taskVars
    /\ UNCHANGED cfgVars

\* showargs, for an alias slot: the value shown for an argument of its
\* mapping.
ShownValue(slot, argument) ==
    LET value == loaded_shortcuts[slot.mapping].mapping[argument].value
    IN IF value # None THEN value[1] ELSE "<auto>"

\* App.set(name, value): _set on the installed pipeline, every exception caught.
set(name, value) ==
    /\ Idle
    /\ LET r == _set(name, value, modules, [heap |-> heap, sc |-> loaded_shortcuts])
       IN /\ heap' = r.heap
          /\ loaded_shortcuts' = r.sc
          /\ last' = [op |-> "set", res |-> r.res]
    /\ UNCHANGED <<modules, runPos, carried, runLog, prevRun>>
    /\ UNCHANGED taskVars
    /\ UNCHANGED cfgVars

(***************************************************************************)
(* Module.execute and App.run: the pipeline executor.  run is followed     *)
(* stage by stage: what a unit's execute() returns is the environment's    *)
(* choice.  runPos is [pc |-> "idle"], [pc |-> "stage", i, j] before the   *)
(* stage of slot i (member j of an alias slot, j = 0 for a unit slot), or  *)
(* [pc |-> "done", exc] when the loops are left (exc: the exception that   *)
(* left run, or None).                                                     *)
(***************************************************************************)

\* What the units of the model may return from run(): Module.ok(output) or
\* Module.nok(), or Module.out(False, output).
Outputs == { <<>>, [A |-> "o1"], [A |-> "o2", K |-> "o2"] }

Outcomes ==
    {[success |-> TRUE, output |-> o] : o \in Outputs}
    \cup {[success |-> FALSE, output |-> <<>>], [success |-> FALSE, output |-> [A |-> "o1"]]}

\* The interrupts Module.execute has handlers for.
Interrupts == {"KeyboardInterrupt", "EOFError"}

\* What a unit does in one call of execute(): prerun, run and postrun
\* complete and run returns `outcome`, or an interrupt is raised while the
\* hook `at` is executing.
Courses ==
    {[at |-> "return", outcome |-> o] : o \in Outcomes}
    \cup {[at |-> h, raised |-> e] : h \in {"prerun", "run", "postrun"}, e \in Interrupts}

\* execute as it would be without the two except clauses.
executeNoHandler(course) ==
    CASE course.at = "return" ->
            [hooks |-> <<"prerun", "run", "postrun">>, raised |-> None, output |-> course.outcome]
      [] course.at = "prerun" ->
            [hooks |-> <<"prerun">>, raised |-> Some(course.raised)]
      [] course.at = "run" ->
            [hooks |-> <<"prerun", "run">>, raised |-> Some(course.raised)]
      [] course.at = "postrun" ->
            [hooks |-> <<"prerun", "run", "postrun">>, raised |-> Some(course.raised)]

\* Module.execute: the hooks called, in order, and what leaves execute: the
\* output of run, or the interrupt raised again by the handler after it
\* has called postrun.  An interrupt in the postrun of the try block finds
\* the same handler.
execute(course) ==
    CASE course.at = "return" ->
            [hooks |-> <<"prerun", "run", "postrun">>, raised |-> None, output |-> course.outcome]
      [] course.at = "prerun" ->
            [hooks |-> <<"prerun", "postrun">>, raised |-> Some(course.raised)]
      [] course.at = "run" ->
            [hooks |-> <<"prerun", "run", "postrun">>, raised |-> Some(course.raised)]
      [] course.at = "postrun" ->
            [hooks |-> <<"prerun", "run", "postrun", "postrun">>, raised |-> Some(course.raised)]

Done(exc) == [pc |-> "done", exc |-> exc]

\* The stage the outer loop reaches when it comes to slot i.
RECURSIVE FirstStage(_)
FirstStage(i) ==
    IF i > Len(modules) THEN Done(None)
    ELSE IF IsUnitSlot(modules[i]) /\ modules[i].module # None THEN [pc |-> "stage", i |-> i, j |-> 0]
    ELSE IF IsAliasSlot(modules[i]) THEN
        IF Len(modules[i].shortcut) = 0 THEN FirstStage(i + 1)
        ELSE [pc |-> "stage", i |-> i, j |-> 1]
    ELSE FirstStage(i + 1)

\* NextStage as it would be if a failed unit slot did not break the loop.
NextStageNoBreak(i, j, success) ==
    IF j = 0 THEN FirstStage(i + 1)
    ELSE IF success /\ j < Len(modules[i].shortcut) THEN [pc |-> "stage", i |-> i, j |-> j + 1]
    ELSE FirstStage(i + 1)

\* The stage after stage (i, j) whose unit returned `success`: the break of
\* a unit slot leaves the loop over the slots, the break of an alias member
\* leaves the loop over the members.
NextStage(i, j, success) ==
    IF j = 0 THEN (IF success THEN FirstStage(i + 1) ELSE Done(None))
    ELSE IF success /\ j < Len(modules[i].shortcut) THEN [pc |-> "stage", i |-> i, j |-> j + 1]
    ELSE FirstStage(i + 1)

\* The slot ({"name", "module"}) a stage runs.
StageSlot(i, j) == IF j = 0 THEN modules[i] ELSE modules[i].shortcut[j]

\* Carry as it would be if every carried key were written, declared or not.
CarryAll(unit, args) == args @@ unit.args

\* Carry as it would be if a carried key only filled arguments the unit lacks.
CarryMissingOnly(unit, args) ==
    LET taken == {arg \in DOMAIN args : arg \notin DOMAIN unit.args /\ unit.dynamicArgs}
    IN [arg \in (DOMAIN unit.args) \cup taken |->
            IF arg \in taken THEN args[arg] ELSE unit.args[arg]]

\* for arg in args: if arg in module.args or module.dynamicArgs: module.args[arg] = args[arg]
Carry(unit, args) ==
    LET taken == {arg \in DOMAIN args : arg \in DOMAIN unit.args \/ unit.dynamicArgs}
    IN [arg \in (DOMAIN unit.args) \cup taken |->
            IF arg \in taken THEN args[arg] ELSE unit.args[arg]]

\* Update as it would be if a key already carried kept its value.
UpdateKeepsFirst(args, output) == args @@ output

\* args.update(output["output"])
Update(args, output) == output @@ args

\* RunStart as it would be if run constructed the units of the pipeline
\* again before it entered the loops.
RunStartRebuilds ==
    /\ Idle
    /\ runPos' = FirstStage(1)
    /\ carried' = <<>>
    /\ runLog' = <<>>
    /\ last' = [op |-> "run", res |-> "running"]
    /\ heap' = [id \in DOMAIN heap |-> NewModule(heap[id].cls)]
    /\ UNCHANGED <<modules, loaded_shortcuts, prevRun>>
    /\ UNCHANGED taskVars
    /\ UNCHANGED cfgVars

\* App.run up to the first stage: args = {} and the loops are entered.
RunStart ==
    /\ Idle
    /\ runPos' = FirstStage(1)
    /\ carried' = <<>>
    /\ runLog' = <<>>
    /\ last' = [op |-> "run", res |-> "running"]
    /\ UNCHANGED <<modules, heap, loaded_shortcuts, prevRun>>
    /\ UNCHANGED taskVars
    /\ UNCHANGED cfgVars

\* One stage: the carried outputs are written into the unit's arguments,
\* the unit is executed and its outcome decides how the loops go on; an
\* interrupt that leaves execute leaves run, which has no handler.  A
\* member that is None raises AttributeError, which leaves run.
RunStage(course) ==
    /\ runPos.pc = "stage"
    /\ LET slot == StageSlot(runPos.i, runPos.j) IN
       IF slot.module = None THEN
            /\ runPos' = Done(Some("AttributeError"))
            /\ UNCHANGED <<heap, carried, runLog>>
       ELSE LET id == slot.module[1]
                args == Carry(heap[id], carried)
                ex == execute(course)
                entry == [i |-> runPos.i, j |-> runPos.j, id |-> id, args |-> args,
                          at |-> course.at, hooks |-> ex.hooks, raised |-> ex.raised]
            IN /\ heap' = [heap EXCEPT ![id].args = args]
               /\ IF ex.raised # None
                  THEN /\ runLog' = Append(runLog, entry @@ [success |-> FALSE, output |-> <<>>])
                       /\ carried' = carried
                       /\ runPos' = Done(ex.raised)
                  ELSE LET outcome == ex.output IN
                       /\ runLog' = Append(runLog, entry @@ [success |-> outcome.success,
                                                             output |-> outcome.output])
                       /\ carried' = IF outcome.success THEN Update(carried, outcome.output)
                                     ELSE carried
                       /\ runPos' = NextStage(runPos.i, runPos.j, outcome.success)
    /\ UNCHANGED <<modules, loaded_shortcuts, last, prevRun>>
    /\ UNCHANGED taskVars
    /\ UNCHANGED cfgVars

\* What a finished run leaves to compare the next one with: for each stage
\* executed, its place in the pipeline, the instance executed and the
\* arguments that were written from the carried outputs (args[arg] for the
\* keys arg some earlier stage succeeded with), with their values.
Stages(log) ==
    [k \in 1..Len(log) |->
        LET taken == {arg \in DOMAIN log[k].args :
                        \E m \in 1..(k - 1) : log[m].success /\ arg \in DOMAIN log[m].output}
        IN [i |-> log[k].i, j |-> log[k].j, id |-> log[k].id,
            written |-> [arg \in taken |-> log[k].args[arg]]]]

\* run returns (or the exception leaves it) and the interpreter takes the
\* next command; the locals of run are gone.
RunEnd ==
    /\ runPos.pc = "done"
    /\ runPos' = [pc |-> "idle"]
    /\ carried' = <<>>
    /\ runLog' = <<>>
    /\ prevRun' = Stages(runLog)
    /\ last' = [op |-> "run", res |-> IF runPos.exc = None THEN "returned" ELSE runPos.exc[1]]
    /\ UNCHANGED <<modules, heap, loaded_shortcuts>>
    /\ UNCHANGED taskVars
    /\ UNCHANGED cfgVars

AppInit ==
    /\ modules = <<>>
    /\ heap = <<>>
    /\ loaded_shortcuts = ConfigShortcuts
    /\ last = [op |-> "init", res |-> "ok"]
    /\ runPos = [pc |-> "idle"]
    /\ carried = <<>>
    /\ runLog = <<>>
    /\ prevRun = <<>>

(***************************************************************************)
(* Task and TaskManager: the background tasks.  A task is the record of    *)
(* its Task object: its identity (self), function, args, kwargs, the       *)
(* shared state flag, the pid (None until the process is started) and the  *)
(* name of the process object.  procs is the process table:                *)
(* pid -> [ppid, status], status "alive", "exited" (the process ended by   *)
(* itself) or "terminated" (it was sent terminate()).                      *)
(***************************************************************************)
MaxTasks == 1
MaxPid == 3
MaxNames == 3

\* utils.getTempDir(): App's temp_dir.
TempDir == "/tmp/mirage"

\* The calls of addTask tried: function, name ("" for the default), args, kwargs.
AddInputs ==
    { [function |-> "sniff", name |-> "probe", args |-> <<>>,       kwargs |-> <<>>],
      [function |-> "probe", name |-> "",      args |-> <<"hci0">>, kwargs |-> <<>>] }

\* The identity of a newly constructed Task object: the least one that no
\* object of `live` (the Task objects that are referred to) has.
NewSelf(live) ==
    CHOOSE i \in 1..(Cardinality(live) + 1) :
        i \notin live /\ \A j \in 1..(Cardinality(live) + 1) : j \notin live => i <= j

\* The identities of the Task objects of a registry.
Selves(ts) == {ts[n].self : n \in DOMAIN ts}

\* Task.__init__(self, function, name, args, kwargs); name is the name
\* multiprocessing.Process.__init__ gives the process object by default,
\* the class name and the number of the object.
NewTask(self, function, name, args, kwargs) ==
    [self |-> self, function |-> function, taskName |-> name, args |-> args,
     kwargs |-> kwargs, state |-> "stopped", pid |-> None,
     name |-> "Task-" \o ToString(self)]

\* UniqueName as it would be if the suffix were the number of tasks.
UniqueNameByCount(baseName, taskName, counter) ==
    IF taskName \in DOMAIN tasks
    THEN baseName \o "." \o ToString(Cardinality(DOMAIN tasks))
    ELSE taskName

\* The loop of addTask: baseName, baseName.1, baseName.2, ... until unused.
RECURSIVE UniqueName(_, _, _)
UniqueName(baseName, taskName, counter) ==
    IF taskName \in DOMAIN tasks
    THEN UniqueName(baseName, baseName \o "." \o ToString(counter), counter + 1)
    ELSE taskName

\* del d[k]
Del(d, k) == [n \in (DOMAIN d) \ {k} |-> d[n]]

\* The keys of a dictionary keep their insertion order.
Without(seq, k) == SelectSeq(seq, LAMBDA n : n # k)
Inserted(seq, k) == IF \E n \in 1..Len(seq) : seq[n] = k THEN seq ELSE Append(seq, k)

Returned(op, name, res) == [op |-> op, name |-> name, res |-> res, killed |-> <<>>]

\* Whether the orchestrator is free to take a call.
Free == mgr.pc = "idle"

\* TaskManager.addTask(function, name, args, kwargs)
addTask(function, name, args, kwargs) ==
    /\ Free
    /\ LET baseName == IF name # "" THEN name ELSE function
           taskName == UniqueName(baseName, baseName, 1)
       IN /\ tasks' = Put(tasks, taskName, NewTask(NewSelf(Selves(tasks)), function, taskName, args, kwargs))
          /\ order' = Inserted(order, taskName)
          /\ ret' = Returned("addTask", name, taskName)
    /\ UNCHANGED <<procs, nextPid, mgr>>
    /\ UNCHANGED appVars
    /\ UNCHANGED cfgVars

\* TaskStart as it would be if the pid were not recorded.
TaskStartNoPid(task, pt, pid) ==
    [task |-> [task EXCEPT !.state = "running"],
     procs |-> Put(pt, pid, [ppid |-> 0, status |-> "alive"])]

\* Task.start: the state is set, then the process is forked and has a pid.
\* Gives the task and the process table after it.
TaskStart(task, pt, pid) ==
    [task |-> [task EXCEPT !.state = "running", !.pid = Some(pid)],
     procs |-> Put(pt, pid, [ppid |-> 0, status |-> "alive"])]

\* startTask as it would be without the test of the state.
startTaskAnyState(name) ==
    /\ mgr.pc = "idle"
    /\ IF name \in DOMAIN tasks
       THEN /\ nextPid <= MaxPid
            /\ LET st == TaskStart(tasks[name], procs, nextPid)
               IN /\ tasks' = [tasks EXCEPT ![name] = st.task]
                  /\ procs' = st.procs
            /\ nextPid' = nextPid + 1
            /\ ret' = Returned("startTask", name, "True")
       ELSE /\ ret' = Returned("startTask", name, "False")
            /\ UNCHANGED <<tasks, procs, nextPid>>
    /\ UNCHANGED <<order, mgr>>
    /\ UNCHANGED appVars
    /\ UNCHANGED cfgVars

\* TaskManager.startTask(name)
startTask(name) ==
    /\ Free
    /\ IF name \in DOMAIN tasks /\ tasks[name].state = "stopped"
       THEN /\ nextPid <= MaxPid
            /\ LET st == TaskStart(tasks[name], procs, nextPid)
               IN /\ tasks' = [tasks EXCEPT ![name] = st.task]
                  /\ procs' = st.procs
            /\ nextPid' = nextPid + 1
            /\ ret' = Returned("startTask", name, "True")
       ELSE /\ ret' = Returned("startTask", name, "False")
            /\ UNCHANGED <<tasks, procs, nextPid>>
    /\ UNCHANGED <<order, mgr>>
    /\ UNCHANGED appVars
    /\ UNCHANGED cfgVars

\* StartStep as it would be if Task.start forked the process before it
\* wrote the state.
StartStepForkFirst(name, phase) ==
    /\ name \in DOMAIN tasks
    /\ IF phase = "state"
       THEN /\ Free
            /\ tasks[name].state = "stopped"
            /\ nextPid <= MaxPid
            /\ tasks' = [tasks EXCEPT ![name].pid = Some(nextPid)]
            /\ procs' = Put(procs, nextPid, [ppid |-> 0, status |-> "alive"])
            /\ nextPid' = nextPid + 1
            /\ mgr' = [pc |-> "start", name |-> name]
            /\ UNCHANGED ret
       ELSE /\ mgr = [pc |-> "start", name |-> name]
            /\ tasks' = [tasks EXCEPT ![name].state = "running"]
            /\ mgr' = [pc |-> "idle"]
            /\ ret' = Returned("startTask", name, "True")
            /\ UNCHANGED <<procs, nextPid>>
    /\ UNCHANGED order
    /\ UNCHANGED appVars
    /\ UNCHANGED cfgVars

\* startTask on a task that is stopped, statement by statement.  Phase
\* "state": the test of startTask passes and Task.start writes "running"
\* into the shared state.  Phase "fork": super().start() forks the
\* process, which has a pid from then on, and startTask returns True.
StartStep(name, phase) ==
    /\ name \in DOMAIN tasks
    /\ IF phase = "state"
       THEN /\ Free
            /\ tasks[name].state = "stopped"
            /\ nextPid <= MaxPid
            /\ tasks' = [tasks EXCEPT ![name].state = "running"]
            /\ mgr' = [pc |-> "start", name |-> name]
            /\ UNCHANGED <<procs, nextPid, ret>>
       ELSE /\ mgr = [pc |-> "start", name |-> name]
            /\ tasks' = [tasks EXCEPT ![name].pid = Some(nextPid)]
            /\ procs' = Put(procs, nextPid, [ppid |-> 0, status |-> "alive"])
            /\ nextPid' = nextPid + 1
            /\ mgr' = [pc |-> "idle"]
            /\ ret' = Returned("startTask", name, "True")
    /\ UNCHANGED order
    /\ UNCHANGED appVars
    /\ UNCHANGED cfgVars

\* psutil.Process(pid).children(): the live processes whose parent is pid,
\* in the order of their pids.
RECURSIVE SortedPids(_)
SortedPids(S) ==
    IF S = {} THEN <<>>
    ELSE LET m == CHOOSE a \in S : \A b \in S : a <= b
         IN <<m>> \o SortedPids(S \ {m})

Children(pt, pid) ==
    SortedPids({c \in DOMAIN pt : pt[c].ppid = pid /\ pt[c].status = "alive"})

\* terminate() on each process of seq, in order.
RECURSIVE TerminateAll(_, _)
TerminateAll(pt, seq) ==
    IF seq = <<>> THEN pt
    ELSE TerminateAll(IF pt[Head(seq)].status = "alive"
                      THEN [pt EXCEPT ![Head(seq)].status = "terminated"] ELSE pt,
                      Tail(seq))

\* StopTask as it would be if the task's process were terminated before
\* its children.
StopTaskParentFirst(name, ts, ord, pt) ==
    IF name \in DOMAIN ts /\ ts[name].state = "running"
    THEN LET pid == ts[name].pid[1]
             killed == <<pid>> \o Children(pt, pid)
         IN [res |-> "True", tasks |-> Del(ts, name), order |-> Without(ord, name),
             procs |-> TerminateAll(pt, killed), killed |-> killed]
    ELSE [res |-> "False", tasks |-> ts, order |-> ord, procs |-> pt, killed |-> <<>>]

\* StopTask as it would be if the task were marked stopped and kept.
StopTaskKeeps(name, ts, ord, pt) ==
    IF name \in DOMAIN ts /\ ts[name].state = "running"
    THEN LET pid == ts[name].pid[1]
             killed == Children(pt, pid) \o <<pid>>
         IN [res |-> "True", tasks |-> [ts EXCEPT ![name].state = "stopped"], order |-> ord,
             procs |-> TerminateAll(pt, killed), killed |-> killed]
    ELSE [res |-> "False", tasks |-> ts, order |-> ord, procs |-> pt, killed |-> <<>>]

\* The body of stopTask, as a function of the registry: gives what it
\* returns, the registry, the key order, the process table and the
\* processes terminate() was called on, in order.
StopTask(name, ts, ord, pt) ==
    IF name \in DOMAIN ts /\ ts[name].state = "running"
    THEN LET pid == ts[name].pid[1]
             killed == Children(pt, pid) \o <<pid>>
         IN [res |-> "True", tasks |-> Del(ts, name), order |-> Without(ord, name),
             procs |-> TerminateAll(pt, killed), killed |-> killed]
    ELSE [res |-> "False", tasks |-> ts, order |-> ord, procs |-> pt, killed |-> <<>>]

\* stopTask as it would be without the test of the state.
stopTaskAnyState(name) ==
    /\ mgr.pc = "idle"
    /\ IF name \in DOMAIN tasks
       THEN /\ tasks' = Del(tasks, name)
            /\ order' = Without(order, name)
            /\ ret' = Returned("stopTask", name, "True")
       ELSE /\ ret' = Returned("stopTask", name, "False")
            /\ UNCHANGED <<tasks, order>>
    /\ UNCHANGED <<procs, nextPid, mgr>>
    /\ UNCHANGED appVars
    /\ UNCHANGED cfgVars

\* TaskManager.stopTask(name)
stopTask(name) ==
    /\ Free
    /\ LET r == StopTask(name, tasks, order, procs)
       IN /\ tasks' = r.tasks
          /\ order' = r.order
          /\ procs' = r.procs
          /\ ret' = [op |-> "stopTask", name |-> name, res |-> r.res, killed |-> r.killed]
    /\ UNCHANGED <<nextPid, mgr>>
    /\ UNCHANGED appVars
    /\ UNCHANGED cfgVars

\* restartTask as it would be if the old Task object were started again.
restartTaskSameObject(name) ==
    /\ mgr.pc = "idle"
    /\ IF name \in DOMAIN tasks
       THEN /\ nextPid <= MaxPid
            /\ LET task == tasks[name]
                   r == StopTask(name, tasks, order, procs)
                   st == TaskStart(task, r.procs, nextPid)
               IN /\ tasks' = Put(r.tasks, name, st.task)
                  /\ order' = Inserted(r.order, name)
                  /\ procs' = st.procs
                  /\ ret' = [op |-> "restartTask", name |-> name, res |-> "True",
                             killed |-> r.killed]
            /\ nextPid' = nextPid + 1
       ELSE /\ ret' = Returned("restartTask", name, "False")
            /\ UNCHANGED <<tasks, order, procs, nextPid>>
    /\ UNCHANGED mgr
    /\ UNCHANGED appVars
    /\ UNCHANGED cfgVars

\* restartTask as it would be if an unknown name were registered and
\* started like a known one.
restartTaskCreates(name) ==
    /\ mgr.pc = "idle"
    /\ nextPid <= MaxPid
    /\ LET task == IF name \in DOMAIN tasks THEN tasks[name]
                   ELSE NewTask(NewSelf(Selves(tasks)), "probe", name, <<>>, <<>>)
           r == StopTask(name, tasks, order, procs)
           st == TaskStart(NewTask(NewSelf(Selves(tasks)), task.function, name,
                                   task.args, task.kwargs),
                           r.procs, nextPid)
       IN /\ tasks' = Put(r.tasks, name, st.task)
          /\ order' = Inserted(r.order, name)
          /\ procs' = st.procs
          /\ ret' = [op |-> "restartTask", name |-> name, res |-> "True",
                     killed |-> r.killed]
    /\ nextPid' = nextPid + 1
    /\ UNCHANGED mgr
    /\ UNCHANGED appVars
    /\ UNCHANGED cfgVars

\* TaskManager.restartTask(name)
restartTask(name) ==
    /\ Free
    /\ IF name \in DOMAIN tasks
       THEN /\ nextPid <= MaxPid
            /\ LET task == tasks[name]
                   r == StopTask(name, tasks, order, procs)
                   st == TaskStart(NewTask(NewSelf(Selves(tasks)), task.function, name,
                                           task.args, task.kwargs),
                                   r.procs, nextPid)
               IN /\ tasks' = Put(r.tasks, name, st.task)
                  /\ order' = Inserted(r.order, name)
                  /\ procs' = st.procs
                  /\ ret' = [op |-> "restartTask", name |-> name, res |-> "True",
                             killed |-> r.killed]
            /\ nextPid' = nextPid + 1
       ELSE /\ ret' = Returned("restartTask", name, "False")
            /\ UNCHANGED <<tasks, order, procs, nextPid>>
    /\ UNCHANGED mgr
    /\ UNCHANGED appVars
    /\ UNCHANGED cfgVars

(***************************************************************************)
(* TaskManager.stopAllTasks is followed step by step, because the task     *)
(* processes run while it does: mgr is [pc |-> "idle"], or [pc, snap, k]   *)
(* with snap the keys of copy(self.tasks) and k the position in them; pc   *)
(* is "loop" before the test of the state of snap[k] and "call" between    *)
(* that test and the call of stopTask.                                     *)
(***************************************************************************)
StopAllBegin ==
    /\ Free
    /\ mgr' = [pc |-> "loop", snap |-> order, k |-> 1]
    /\ UNCHANGED <<tasks, order, procs, nextPid, ret>>
    /\ UNCHANGED appVars
    /\ UNCHANGED cfgVars

\* if self.tasks[task].state.value == "running": ... else: del self.tasks[task]
StopAllTest ==
    /\ mgr.pc = "loop"
    /\ mgr.k <= Len(mgr.snap)
    /\ LET task == mgr.snap[mgr.k] IN
       IF tasks[task].state = "running"
       THEN /\ mgr' = [mgr EXCEPT !.pc = "call"]
            /\ UNCHANGED <<tasks, order>>
       ELSE /\ tasks' = Del(tasks, task)
            /\ order' = Without(order, task)
            /\ mgr' = [mgr EXCEPT !.k = @ + 1]
    /\ UNCHANGED <<procs, nextPid, ret>>
    /\ UNCHANGED appVars
    /\ UNCHANGED cfgVars

\* self.stopTask(task)
StopAllCall ==
    /\ mgr.pc = "call"
    /\ LET r == StopTask(mgr.snap[mgr.k], tasks, order, procs)
       IN /\ tasks' = r.tasks
          /\ order' = r.order
          /\ procs' = r.procs
    /\ mgr' = [mgr EXCEPT !.pc = "loop", !.k = @ + 1]
    /\ UNCHANGED <<nextPid, ret>>
    /\ UNCHANGED appVars
    /\ UNCHANGED cfgVars

StopAllReturn ==
    /\ mgr.pc = "loop"
    /\ mgr.k > Len(mgr.snap)
    /\ mgr' = [pc |-> "idle"]
    /\ ret' = Returned("stopAllTasks", "", "None")
    /\ UNCHANGED <<tasks, order, procs, nextPid>>
    /\ UNCHANGED appVars
    /\ UNCHANGED cfgVars

\* TaskEnds as it would be without the finally clause: the process exits
\* and the shared state is left as it is.
TaskEndsUnwritten(name) ==
    /\ name \in DOMAIN tasks
    /\ tasks[name].pid # None
    /\ procs[tasks[name].pid[1]].status = "alive"
    /\ procs' = [procs EXCEPT ![tasks[name].pid[1]].status = "exited"]
    /\ UNCHANGED <<tasks, order, nextPid, mgr, ret>>
    /\ UNCHANGED appVars
    /\ UNCHANGED cfgVars

\* TaskEnds as it would be if the finally clause wrote "stopped".
TaskEndsStopped(name) ==
    /\ name \in DOMAIN tasks
    /\ tasks[name].pid # None
    /\ procs[tasks[name].pid[1]].status = "alive"
    /\ tasks' = [tasks EXCEPT ![name].state = "stopped"]
    /\ procs' = [procs EXCEPT ![tasks[name].pid[1]].status = "exited"]
    /\ UNCHANGED <<order, nextPid, mgr, ret>>
    /\ UNCHANGED appVars
    /\ UNCHANGED cfgVars

\* Task.run in the task's process: the function returns or raises, and the
\* finally clause writes "ended" into the shared state, whatever it holds;
\* the process exits.
TaskEnds(name) ==
    /\ name \in DOMAIN tasks
    /\ tasks[name].pid # None
    /\ procs[tasks[name].pid[1]].status = "alive"
    /\ tasks' = [tasks EXCEPT ![name].state = "ended"]
    /\ procs' = [procs EXCEPT ![tasks[name].pid[1]].status = "exited"]
    /\ UNCHANGED <<order, nextPid, mgr, ret>>
    /\ UNCHANGED appVars
    /\ UNCHANGED cfgVars

\* A live process below the orchestrator forks a child of its own.
Spawn(pid) ==
    /\ pid \in DOMAIN procs
    /\ procs[pid].status = "alive"
    /\ nextPid <= MaxPid
    /\ procs' = Put(procs, nextPid, [ppid |-> pid, status |-> "alive"])
    /\ nextPid' = nextPid + 1
    /\ UNCHANGED <<tasks, order, mgr, ret>>
    /\ UNCHANGED appVars
    /\ UNCHANGED cfgVars

\* str(self.pid)
StrPid(task) == IF task.pid = None THEN "None" ELSE ToString(task.pid[1])

\* self.outputFilename: "" from __init__, <tempDir>/<taskName>-<pid>.out
\* from start.
OutputFilename(task) ==
    IF task.pid = None THEN ""
    ELSE TempDir \o "/" \o task.taskName \o "-" \o ToString(task.pid[1]) \o ".out"

\* Task.toList
toList(task) == <<StrPid(task), task.taskName, task.state, OutputFilename(task)>>

\* pattern in text
Contains(pattern, text) ==
    \E i \in 0..(Len(text) - Len(pattern)) : SubSeq(text, i + 1, i + Len(pattern)) = pattern

\* TaskManager.getTasksList(pattern): the rows of the tasks that match, in
\* the order of the registry's keys.
RECURSIVE RowsOf(_, _, _)
RowsOf(ts, ord, pattern) ==
    IF ord = <<>> THEN <<>>
    ELSE LET t == ts[Head(ord)]
             rest == RowsOf(ts, Tail(ord), pattern)
         IN IF Contains(pattern, t.name) \/ Contains(pattern, StrPid(t))
               \/ Contains(pattern, t.state)
            THEN <<toList(t)>> \o rest
            ELSE rest

getTasksList(pattern) == RowsOf(tasks, order, pattern)

\* The patterns tried.
Patterns == {"", "Task", "1", "running"}

TaskInit ==
    /\ tasks = <<>>
    /\ order = <<>>
    /\ procs = <<>>
    /\ nextPid = 1
    /\ mgr = [pc |-> "idle"]
    /\ ret = Returned("init", "", "None")

(***************************************************************************)
(* Config: the configuration store.  Values are kept as the strings they   *)
(* print as; get's default is "None" when none is supplied.                *)
(***************************************************************************)
MaxCalls == 4

\* Config._create_default_config
DefaultConfig ==
    [ debug_mode |-> "False", log_level |-> "INFO", default_interface |-> "hci0",
      auto_save_pcap |-> "False", pcap_directory |-> "~/.mirage/pcap" ]

\* The keys, values and defaults tried.
ConfigKeys == {"log_level", "test_key"}
ConfigValues == {"DEBUG", "test_value"}
ConfigDefaults == {"None", "fallback"}

\* ConfigSet as it would be if a key that has a value kept it.
ConfigSetOnce(key, value) ==
    /\ config' = IF key \in DOMAIN config THEN config ELSE Put(config, key, value)
    /\ configFile' = config'
    /\ cfgLog' = Append(cfgLog, [op |-> "set", key |-> key, arg |-> value, res |-> "None"])
    /\ UNCHANGED appVars
    /\ UNCHANGED taskVars

\* Config.set(key, value): the dictionary is written, then saved.
ConfigSet(key, value) ==
    /\ config' = Put(config, key, value)
    /\ configFile' = config'
    /\ cfgLog' = Append(cfgLog, [op |-> "set", key |-> key, arg |-> value, res |-> "None"])
    /\ UNCHANGED appVars
    /\ UNCHANGED taskVars

\* Config.get(key, default): self.config.get(key, default)
ConfigGet(key, default) ==
    /\ cfgLog' = Append(cfgLog, [op |-> "get", key |-> key, arg |-> default,
                                 res |-> IF key \in DOMAIN config THEN config[key] ELSE default])
    /\ UNCHANGED <<config, configFile>>
    /\ UNCHANGED appVars
    /\ UNCHANGED taskVars

\* Config._initialize_config with no config.json: the default configuration
\* is created and saved.
ConfigInit ==
    /\ config = DefaultConfig
    /\ configFile = DefaultConfig
    /\ cfgLog = <<>>

Init == AppInit /\ TaskInit /\ ConfigInit

Load == \E expr \in LoadExprs : load(expr)
Set == \E name \in SetNames, value \in Values : set(name, value)

\* The resolver and the router: every command sequence of load and set.
Next == Load \/ Set

Spec == Init /\ [][Next]_vars

\* The executor: pipelines of two and three stages are loaded, parameters
\* are set on them and they are run.
RunLoadExprs == { <<"x", "s2">>, <<"s2", "x">>, <<"x", "d">>, <<"s3">> }

RunValues == {"v1"}

RunSetNames == {<<modules[i].name, "A">> : i \in 1..Len(modules)} \cup {<<"A">>}

RunLoad == \E expr \in RunLoadExprs : load(expr)
RunSet == \E name \in RunSetNames, value \in RunValues : set(name, value)
Execute == \E course \in Courses : RunStage(course)

RunNext == RunLoad \/ RunSet \/ RunStart \/ Execute \/ RunEnd

RunSpec == Init /\ [][RunNext]_vars

\* The task manager: the orchestrator's calls and the task processes.
TaskNames == (DOMAIN tasks) \cup {"ghost"}

AddTask ==
    /\ Cardinality(DOMAIN tasks) < MaxTasks
    /\ \E a \in AddInputs : addTask(a.function, a.name, a.args, a.kwargs)
StartTask == \E name \in TaskNames : startTask(name)
StopTaskCall == \E name \in TaskNames : stopTask(name)
RestartTask == \E name \in TaskNames : restartTask(name)
StopAllTasks == StopAllBegin \/ StopAllTest \/ StopAllCall \/ StopAllReturn
TaskProcess == \E name \in DOMAIN tasks : TaskEnds(name)
Fork == \E pid \in DOMAIN procs : Spawn(pid)

TaskNext ==
    AddTask \/ StartTask \/ StopTaskCall \/ RestartTask \/ StopAllTasks \/ TaskProcess \/ Fork

TaskSpec == Init /\ [][TaskNext]_vars

\* The names a task of TaskSpec may be registered under.
PossibleNames == {"probe"} \cup {"probe." \o ToString(k) : k \in 1..MaxTasks}

\* The calls of the task manager and the task processes, without the
\* children a task function may fork (they take no part in the state of a
\* task).
SchedNext ==
    AddTask \/ StartTask \/ StopTaskCall \/ RestartTask \/ StopAllTasks \/ TaskProcess

\* The task manager with task processes that are scheduled: the process of
\* a task whose function comes to its end does not wait for ever.
FairTaskSpec ==
    Init /\ [][SchedNext]_vars /\ \A n \in PossibleNames : WF_vars(TaskEnds(n))

\* TaskManager.getTaskState(name)
getTaskState(name) == IF name \in DOMAIN tasks THEN tasks[name].state ELSE "None"

\* The registry alone: tasks are added, started and stopped, up to MaxNames
\* at a time, with no task process taking a step in between.  The tasks
\* are added for one function, its name given or left to the default.
ProbeInputs ==
    { [function |-> "probe", name |-> "probe", args |-> <<"hci0">>, kwargs |-> <<>>],
      [function |-> "probe", name |-> "",      args |-> <<"hci0">>, kwargs |-> <<>>] }

AddNamed ==
    /\ Cardinality(DOMAIN tasks) < MaxNames
    /\ \E a \in ProbeInputs : addTask(a.function, a.name, a.args, a.kwargs)

RegistryNext == AddNamed \/ StartTask \/ StopTaskCall

RegistrySpec == Init /\ [][RegistryNext]_vars

\* The start of a task statement by statement, among the other calls and
\* the task processes.
StartWrite == \E name \in DOMAIN tasks : StartStep(name, "state")
StartFork == \E name \in DOMAIN tasks : StartStep(name, "fork")

StartNext == AddNamed \/ StartWrite \/ StartFork \/ StopTaskCall \/ TaskProcess

StartSpec == Init /\ [][StartNext]_vars

\* The defaults and the unit kinds: aliases whose mapping entries come with
\* a default value, the unit that accepts undeclared arguments, and a name
\* that is both a unit and an alias.
SeedLoadExprs ==
    { <<"s4">>, <<"s5">>, <<"s6">>, <<"d">>, <<"x">>, <<"w">>, <<"s4", "d">>, <<"s4", "s4">> }

SeedArgNames == {"A", "P", "GAIN"}

SeedSetNames ==
    {<<a>> : a \in SeedArgNames}
    \cup {<<modules[i].name, a>> : i \in 1..Len(modules), a \in SeedArgNames}

SeedLoad == \E expr \in SeedLoadExprs : load(expr)
SeedSet == \E name \in SeedSetNames, value \in Values : set(name, value)

SeedNext == SeedLoad \/ SeedSet

SeedSpec == Init /\ [][SeedNext]_vars

\* The configuration store: up to MaxCalls calls of set and get.
CfgSet ==
    /\ Len(cfgLog) < MaxCalls
    /\ \E key \in ConfigKeys, value \in ConfigValues : ConfigSet(key, value)
CfgGet ==
    /\ Len(cfgLog) < MaxCalls
    /\ \E key \in ConfigKeys, default \in ConfigDefaults : ConfigGet(key, default)

ConfigNext == CfgSet \/ CfgGet

ConfigSpec == Init /\ [][ConfigNext]_vars

(***************************************************************************)
(* The properties.                                                         *)
(***************************************************************************)

\* A component that resolves neither to a unit nor to an alias.
Unresolvable(m) == m \notin DOMAIN modulesList /\ m \notin DOMAIN loaded_shortcuts

\* A unit instance with an argument that holds a value a user set.
Touched(id) == \E a \in DOMAIN heap[id].args : heap[id].args[a] \in Values

\* C1: a load whose expression has a component that is neither a unit nor
\* an alias leaves the installed pipeline as it was: the same slots and
\* display names, the same unit instances with the same arguments, and the
\* same alias values.
C1_RejectedLoadKeepsPipeline ==
    [][\A expr \in LoadExprs :
         ((\E k \in 1..Len(expr) : Unresolvable(expr[k])) /\ load(expr))
         => /\ modules' = modules
            /\ heap' = heap
            /\ loaded_shortcuts' = loaded_shortcuts]_vars

\* C1 happens: a load was rejected for an unknown name while a pipeline with
\* a changed argument was installed.
C1_Witness ==
    /\ last = [op |-> "load", res |-> "unknown"]
    /\ modules # <<>>
    /\ \E id \in DOMAIN heap : Touched(id)

\* C2: every slot of the installed pipeline holds a unit instance, and so
\* does every member of every alias slot (no member is None).
C2_EveryMemberBound ==
    \A i \in 1..Len(modules) :
        IF IsUnitSlot(modules[i]) THEN modules[i].module # None
        ELSE \A j \in 1..Len(modules[i].shortcut) : modules[i].shortcut[j].module # None

\* The alias slots a set name addresses: the only slot for a bare name, the
\* slot of that display name for a dotted one.
AddressedAlias(name) ==
    {i \in 1..Len(modules) :
        /\ IsAliasSlot(modules[i])
        /\ \/ Len(modules) = 1 /\ Len(name) = 1
           \/ Len(modules) > 1 /\ Len(name) = 2 /\ modules[i].name = name[1]}

\* The mapping entries of alias slot i, and the parameter a name ends in.
EntriesOf(i) == loaded_shortcuts[modules[i].mapping].mapping
ParamOf(name) == name[Len(name)]

\* Whether member j of the members declares argument a.
Declares(members, j, a) ==
    members[j].module # None /\ a \in DOMAIN heap[members[j].module[1]].args

\* The argument cells <<member, argument>> a bare target names: the
\* argument in every member that declares it.
BareCells(members, t) ==
    IF Len(t) = 1 THEN {<<j, t[1]>> : j \in {n \in 1..Len(members) : Declares(members, n, t[1])}}
    ELSE {}

\* The cells a target reaches: a bare target in an alias of one member, a
\* target "<member display name>.<argument>" in an alias of several.
RoutedCells(members, t) ==
    IF Len(members) = 1 THEN BareCells(members, t)
    ELSE IF Len(t) = 2
    THEN {<<j, t[2]>> : j \in {n \in 1..Len(members) :
                                  members[n].name = t[1] /\ Declares(members, n, t[2])}}
    ELSE {}

\* The value of a cell in heap h.
CellValue(h, members, c) == h[members[c[1]].module[1]].args[c[2]]

Targets(entry) == {entry.parameters[n] : n \in 1..Len(entry.parameters)}

FannedOut(i, key, v) ==
    LET entry == EntriesOf(i)[key] IN
    /\ entry.value = Some(v)
    /\ \A t \in Targets(entry) :
         /\ RoutedCells(modules[i].shortcut, t) # {}
         /\ \A c \in RoutedCells(modules[i].shortcut, t) :
               CellValue(heap, modules[i].shortcut, c) = v

C4_FailedSetChangesNothing ==
    [][\A name \in SetNames, v \in Values : \A i \in AddressedAlias(name) :
         (/\ ParamOf(name) \in DOMAIN EntriesOf(i)
          /\ last'.res # "True"
          /\ set(name, v))
         => \A j \in 1..Len(modules[i].shortcut) :
               modules[i].shortcut[j].module # None
               => heap'[modules[i].shortcut[j].module[1]].args
                    = heap[modules[i].shortcut[j].module[1]].args]_vars

\* C5: the value of a mapping entry changes only in a set that succeeded,
\* to the value set, with every target of the entry holding that value in
\* the members of an alias slot; so a set that fails (or any other
\* command) leaves every entry's value as it was.
C5_ValueCommittedOnlyOnSuccess ==
    [][\A m \in DOMAIN loaded_shortcuts : \A key \in DOMAIN loaded_shortcuts[m].mapping :
         loaded_shortcuts'[m].mapping[key].value # loaded_shortcuts[m].mapping[key].value
         => /\ last' = [op |-> "set", res |-> "True"]
            /\ \E i \in 1..Len(modules), v \in Values :
                 /\ IsAliasSlot(modules[i]) /\ modules[i].mapping = m
                 /\ FannedOut(i, key, v)']_vars

\* C5 happens: a set on an alias slot failed after an earlier one had
\* succeeded, and the entry committed earlier still has its value although
\* a member argument no longer has it.
C5_Witness ==
    /\ last = [op |-> "set", res |-> "IncorrectParameter"]
    /\ Len(modules) = 1 /\ IsAliasSlot(modules[1])
    /\ \E key \in DOMAIN EntriesOf(1), v \in Values :
         /\ EntriesOf(1)[key].value = Some(v)
         /\ ~FannedOut(1, key, v)

\* C6: in a run, a unit slot that reported failure is the last stage
\* executed: the loops are left and nothing is executed after it.
C6_UnitFailureEndsRun ==
    \A k \in 1..Len(runLog) :
        (runLog[k].j = 0 /\ ~runLog[k].success)
        => (k = Len(runLog) /\ runPos.pc = "done")

\* C6 happens: the first of three stages failed and the run is over.
C6_Witness ==
    /\ runPos.pc = "done"
    /\ Len(runLog) = 1
    /\ runLog[1].j = 0 /\ ~runLog[1].success
    /\ Len(modules) = 2 /\ IsAliasSlot(modules[2]) /\ Len(modules[2].shortcut) = 2

\* C7: in a run, an alias member that reported failure is the last stage
\* executed: neither a later member nor a later slot is executed.
C7_MemberFailureEndsRun ==
    \A k \in 1..Len(runLog) :
        (runLog[k].j > 0 /\ ~runLog[k].success)
        => (k = Len(runLog) /\ runPos.pc = "done")

\* The last stage before stage k that succeeded with an output for key K
\* (0 if there is none).
LastWriter(k, K) ==
    LET W == {n \in 1..(k - 1) : runLog[n].success /\ K \in DOMAIN runLog[n].output}
    IN IF W = {} THEN 0 ELSE CHOOSE n \in W : \A o \in W : o <= n

\* C8: a stage that has argument K, run after a stage that succeeded with
\* an output for K, is executed with K equal to the output of the latest
\* such stage.
C8_CarriedOutputOverrides ==
    \A k \in 1..Len(runLog) : \A K \in DOMAIN runLog[k].args :
        LastWriter(k, K) # 0
        => runLog[k].args[K] = runLog[LastWriter(k, K)].output[K]

\* C8 happens: three stages ran, the first two gave different outputs for
\* A, and the third, which declares A, ran with the second's.
C8_Witness ==
    /\ Len(runLog) = 3
    /\ runLog[1].success /\ runLog[2].success
    /\ "A" \in DOMAIN runLog[1].output /\ "A" \in DOMAIN runLog[2].output
    /\ runLog[1].output["A"] # runLog[2].output["A"]
    /\ ~heap[runLog[3].id].dynamicArgs
    /\ runLog[3].args["A"] = runLog[2].output["A"]

\* C9: when stopAllTasks has returned, the registry is empty.
C9_StopAllEmptiesRegistry ==
    (mgr.pc = "idle" /\ ret.op = "stopAllTasks") => DOMAIN tasks = {}

\* C10: startTask fails and changes no task and no process unless the task
\* exists and is stopped; then it succeeds, the task is running with a pid
\* and the other tasks are as they were.
C10_StartOnlyFromStopped ==
    [][\A name \in TaskNames :
         startTask(name)
         => IF name \in DOMAIN tasks /\ tasks[name].state = "stopped"
            THEN /\ ret'.res = "True"
                 /\ tasks'[name].state = "running"
                 /\ tasks'[name].pid # None
                 /\ \A n \in (DOMAIN tasks) \ {name} : tasks'[n] = tasks[n]
            ELSE /\ ret'.res = "False"
                 /\ tasks' = tasks
                 /\ procs' = procs]_vars

\* C10 happens: startTask was refused for a task that is running and has
\* its pid.
C10_Witness ==
    /\ ret.op = "startTask" /\ ret.res = "False"
    /\ ret.name \in DOMAIN tasks
    /\ tasks[ret.name].state = "running"
    /\ tasks[ret.name].pid # None

\* C11: stopTask fails and leaves the registry, every task's state and
\* every process as they were unless the task exists and is running: a
\* stopped or an ended task stays registered.
C11_StopOnlyFromRunning ==
    [][\A name \in TaskNames :
         (~(name \in DOMAIN tasks /\ tasks[name].state = "running") /\ stopTask(name))
         => /\ ret'.res = "False"
            /\ tasks' = tasks
            /\ order' = order
            /\ procs' = procs]_vars

\* C11 happens: stopTask was refused for a task that has ended, and the
\* task is registered.
C11_Witness ==
    /\ ret.op = "stopTask" /\ ret.res = "False"
    /\ ret.name \in DOMAIN tasks
    /\ tasks[ret.name].state = "ended"

\* The task names a row of a listing may bear.
RowNames(rows) == {rows[n][2] : n \in 1..Len(rows)}

\* C12: when stopTask has succeeded, the name is no key of the registry
\* and no listing, for any pattern, has a row for it; a name that is
\* absent is registered again only by addTask returning it.
C12_StoppedTaskIsGone ==
    [][/\ \A name \in TaskNames :
            (/\ name \in DOMAIN tasks /\ tasks[name].state = "running"
             /\ ret'.op = "stopTask" /\ ret'.name = name
             /\ stopTask(name))
            => /\ ret'.res = "True"
               /\ name \notin DOMAIN tasks'
               /\ \A pattern \in Patterns : name \notin RowNames(getTasksList(pattern))'
       /\ \A pattern \in Patterns : RowNames(getTasksList(pattern))' \subseteq DOMAIN tasks'
       /\ \A name \in DOMAIN tasks' :
            name \notin DOMAIN tasks => (ret'.op = "addTask" /\ ret'.res = name)]_vars

\* C12 happens: stopTask succeeded on a task that was listed, and the
\* listings still have the rows of the other tasks, one of them running.
C12_Witness ==
    /\ ret.op = "stopTask" /\ ret.res = "True"
    /\ ret.name \notin DOMAIN tasks
    /\ Len(getTasksList("")) = 2
    /\ Len(getTasksList("running")) = 1
    /\ ret.name \notin RowNames(getTasksList(""))

\* name.k
Suffixed(name, k) == name \o "." \o ToString(k)

\* C13: addTask returns the name (the function's name when none is given)
\* if it is not registered, and otherwise name.k for the least k >= 1
\* with name.k not registered; what it returns was no key before the call
\* and is one after it.
C13_LeastFreeSuffix ==
    [][\A a \in ProbeInputs :
         (ret'.op = "addTask" /\ addTask(a.function, a.name, a.args, a.kwargs))
         => LET name == IF a.name # "" THEN a.name ELSE a.function IN
            /\ ret'.res \notin DOMAIN tasks
            /\ DOMAIN tasks' = (DOMAIN tasks) \cup {ret'.res}
            /\ IF name \notin DOMAIN tasks THEN ret'.res = name
               ELSE \E k \in 1..Cardinality(DOMAIN tasks) :
                        /\ ret'.res = Suffixed(name, k)
                        /\ \A j \in 1..(k - 1) : Suffixed(name, j) \in DOMAIN tasks]_vars

\* C13 happens: probe, probe.1 and probe.2 were added in this order,
\* probe.1 was stopped, and the next addTask returned probe.1.
C13_Witness ==
    /\ ret.op = "addTask" /\ ret.res = "probe.1"
    /\ order = <<"probe", "probe.2", "probe.1">>

\* C14: restartTask on a name that is not registered returns False and
\* leaves the registry and the processes as they were.
C14_RestartUnknownDoesNothing ==
    [][\A name \in TaskNames :
         (name \notin DOMAIN tasks /\ ret'.op = "restartTask" /\ restartTask(name))
         => /\ ret'.res = "False"
            /\ tasks' = tasks
            /\ order' = order
            /\ procs' = procs
            /\ nextPid' = nextPid]_vars

\* C14 happens: restartTask of an unknown name was refused while another
\* task is running.
C14_Witness ==
    /\ ret.op = "restartTask" /\ ret.res = "False"
    /\ ret.name \notin DOMAIN tasks
    /\ \E n \in DOMAIN tasks : tasks[n].state = "running"

\* C15: restartTask on a registered name returns True, whatever the state
\* of the task, and leaves under the name a new Task object that is
\* running in a new live process and has the function, args and kwargs of
\* the one it replaces; the process of a task that was running has been
\* terminated.
C15_RestartReplacesTask ==
    [][\A name \in DOMAIN tasks :
         (ret'.op = "restartTask" /\ restartTask(name))
         => /\ ret'.res = "True"
            /\ name \in DOMAIN tasks'
            /\ tasks'[name].self # tasks[name].self
            /\ tasks'[name].state = "running"
            /\ tasks'[name].pid # None /\ tasks'[name].pid # tasks[name].pid
            /\ procs'[tasks'[name].pid[1]].status = "alive"
            /\ tasks'[name].taskName = name
            /\ tasks'[name].function = tasks[name].function
            /\ tasks'[name].args = tasks[name].args
            /\ tasks'[name].kwargs = tasks[name].kwargs
            /\ tasks[name].state = "running"
               => procs'[tasks[name].pid[1]].status = "terminated"]_vars

\* C15 happens: a task that was running has been restarted: its old
\* process was terminated and the new object runs in another process.
C15_Witness ==
    /\ ret.op = "restartTask" /\ ret.res = "True"
    /\ ret.killed # <<>>
    /\ tasks[ret.name].state = "running"
    /\ tasks[ret.name].function = "sniff"
    /\ procs[tasks[ret.name].pid[1]].status = "alive"

\* C16: a stopTask that succeeds sends terminate() to every live child of
\* the task's process, once each, and then to the task's process, which
\* is the last; when it returns they are all terminated and the task is
\* no longer registered.
C16_ChildrenBeforeTask ==
    [][\A name \in DOMAIN tasks :
         (/\ tasks[name].state = "running"
          /\ ret'.op = "stopTask"
          /\ stopTask(name))
         => LET pid == tasks[name].pid[1]
                kids == {c \in DOMAIN procs : procs[c].ppid = pid /\ procs[c].status = "alive"}
                killed == ret'.killed
            IN /\ ret'.res = "True"
               /\ Len(killed) = Cardinality(kids) + 1
               /\ killed[Len(killed)] = pid
               /\ {killed[n] : n \in 1..(Len(killed) - 1)} = kids
               /\ \A n \in 1..Len(killed) : procs'[killed[n]].status = "terminated"
               /\ name \notin DOMAIN tasks']_vars

\* C16 happens: a task whose process had two children was stopped.
C16_Witness ==
    /\ ret.op = "stopTask" /\ ret.res = "True"
    /\ Len(ret.killed) = 3
    /\ \A n \in 1..2 : procs[ret.killed[n]].ppid = ret.killed[3]

\* Whether process p descends from process a.
RECURSIVE Descends(_, _)
Descends(p, a) ==
    IF p \notin DOMAIN procs \/ procs[p].ppid = 0 THEN FALSE
    ELSE procs[p].ppid = a \/ Descends(procs[p].ppid, a)

\* C17: when stopTask has succeeded, every process that descends from the
\* task's process has been sent terminate().
C17_NoDescendantLeft ==
    (ret.op = "stopTask" /\ ret.res = "True")
    => \A p \in DOMAIN procs :
          Descends(p, ret.killed[Len(ret.killed)])
          => \E n \in 1..Len(ret.killed) : ret.killed[n] = p

\* C18: a Task object that stays registered keeps its state, or goes from
\* stopped to running in a startTask that succeeds on it, or from running
\* to ended in a step of its own process (no call of the orchestrator
\* returns in that step); so an ended task stays ended and none goes back
\* to stopped.  A running task that leaves the registry has had its
\* process terminated.
C18_TaskStateMachine ==
    [][\A n \in DOMAIN tasks :
         IF n \in DOMAIN tasks' /\ tasks'[n].self = tasks[n].self
         THEN \/ tasks'[n].state = tasks[n].state
              \/ /\ tasks[n].state = "stopped" /\ tasks'[n].state = "running"
                 /\ ret' = Returned("startTask", n, "True")
              \/ /\ tasks[n].state = "running" /\ tasks'[n].state = "ended"
                 /\ ret' = ret /\ mgr' = mgr
         ELSE tasks[n].state = "running"
              => procs'[tasks[n].pid[1]].status = "terminated"]_vars

\* C18 happens: a task has ended and is registered, the last call being a
\* startTask on it that was refused.
C18_Witness ==
    /\ ret.op = "startTask" /\ ret.res = "False"
    /\ ret.name \in DOMAIN tasks
    /\ tasks[ret.name].state = "ended"

\* C19: every registered task is stopped, running or ended, and has a pid
\* exactly when it is not stopped.
C19_PidIffStarted ==
    \A n \in DOMAIN tasks :
        /\ tasks[n].state \in {"stopped", "running", "ended"}
        /\ (tasks[n].pid # None) <=> (tasks[n].state # "stopped")

\* C19 happens: a task that was restarted has ended and has the pid of its
\* second process.
C19_Witness ==
    /\ ret.op = "restartTask" /\ ret.res = "True"
    /\ tasks[ret.name].state = "ended"
    /\ tasks[ret.name].pid = Some(2)

\* C20: a load that succeeds installs one slot per component, in order;
\* the slot of a single component bears the component's name, and with
\* several components the i-th slot, unit or alias, bears its component's
\* name followed by i.
C20_DisplayNames ==
    [][\A expr \in LoadExprs :
         (last'.op = "load" /\ last'.res = "ok" /\ load(expr))
         => /\ Len(modules') = Len(expr)
            /\ \A i \in 1..Len(expr) :
                 modules'[i].name = IF Len(expr) = 1 THEN expr[i]
                                    ELSE expr[i] \o ToString(i)]_vars

\* C20 happens: the same unit was loaded twice, as x1 and x2, two
\* instances.
C20_Witness ==
    /\ last = [op |-> "load", res |-> "ok"]
    /\ Len(modules) = 2
    /\ modules[1].name = "x1" /\ modules[2].name = "x2"
    /\ IsUnitSlot(modules[1]) /\ IsUnitSlot(modules[2])
    /\ modules[1].module # modules[2].module

\* Every entry of alias slot i that has a value has each of its targets
\* equal to that value, in the members that declare the target.
Seeded(i) ==
    \A key \in DOMAIN EntriesOf(i) :
        LET entry == EntriesOf(i)[key] IN
        entry.value # None
        => \A t \in Targets(entry) :
              \A c \in BareCells(modules[i].shortcut, t) \cup RoutedCells(modules[i].shortcut, t) :
                  CellValue(heap, modules[i].shortcut, c) = entry.value[1]

\* An alias component one of whose mapping entries has a value.
HasDefault(m) ==
    /\ m \in DOMAIN loaded_shortcuts /\ m \notin DOMAIN modulesList
    /\ \E key \in DOMAIN loaded_shortcuts[m].mapping :
          loaded_shortcuts[m].mapping[key].value # None

\* C21: a load with an alias one of whose mapping entries has a value
\* completes without error, and then every target of every such entry
\* holds the entry's value in the members that declare it.
C21_DefaultsPreSeeded ==
    [][\A expr \in SeedLoadExprs :
         (/\ last'.op = "load"
          /\ \E k \in 1..Len(expr) : HasDefault(expr[k])
          /\ load(expr))
         => /\ last'.res = "ok"
            /\ \A i \in 1..Len(modules') : IsAliasSlot(modules'[i]) => Seeded(i)']_vars

\* C22: with one unit slot loaded, set(name, v) gives the unit's argument
\* name the value v, and leaves the other arguments as they were, exactly
\* when the unit accepts undeclared arguments or declares name; otherwise
\* the argument table is unchanged, and unless name is a reserved device
\* key and the unit wireless, the call fails with IncorrectParameter and
\* changes nothing.
C22_SingleUnitSet ==
    [][\A name \in SeedSetNames, v \in Values :
         (/\ Len(modules) = 1 /\ IsUnitSlot(modules[1])
          /\ last'.op = "set"
          /\ set(name, v))
         => LET id == modules[1].module[1]
                unit == heap[id]
                key == JoinDot(name)
            IN IF unit.dynamicArgs \/ key \in DOMAIN unit.args
               THEN /\ last'.res = "True"
                    /\ heap'[id].args[key] = v
                    /\ DOMAIN heap'[id].args = (DOMAIN unit.args) \cup {key}
                    /\ \A a \in (DOMAIN unit.args) \ {key} : heap'[id].args[a] = unit.args[a]
               ELSE /\ heap'[id].args = unit.args
                    /\ ~(key \in SDR_PARAMETERS /\ unit.wireless)
                       => (last'.res = "IncorrectParameter" /\ heap' = heap)]_vars

\* C22 happens: on a unit that takes declared arguments only, a set of an
\* undeclared name failed and the value an earlier call gave A is kept.
C22_Witness ==
    /\ last = [op |-> "set", res |-> "IncorrectParameter"]
    /\ Len(modules) = 1 /\ IsUnitSlot(modules[1])
    /\ ~heap[modules[1].module[1]].dynamicArgs
    /\ heap[modules[1].module[1]].args["A"] = "v2"

\* C22 happens for a unit that accepts undeclared arguments: it has got
\* an argument it did not declare.
C22_DynamicWitness ==
    /\ last = [op |-> "set", res |-> "True"]
    /\ Len(modules) = 1 /\ IsUnitSlot(modules[1])
    /\ heap[modules[1].module[1]].dynamicArgs
    /\ "P" \in DOMAIN heap[modules[1].module[1]].args

\* C23: with two or more slots loaded, a set with a name that has no dot
\* fails with MultipleModulesLoaded and changes no argument of any unit
\* and no value of any alias entry, also when every unit declares the name.
C23_BareNameAmongSeveral ==
    [][\A name \in SetNames, v \in Values :
         (/\ Len(modules) >= 2 /\ Len(name) = 1
          /\ last'.op = "set"
          /\ set(name, v))
         => /\ last'.res = "MultipleModulesLoaded"
            /\ heap' = heap
            /\ loaded_shortcuts' = loaded_shortcuts
            /\ modules' = modules]_vars

\* C23 happens: two units that both declare A are loaded, the first has a
\* value set under its display name, and a set of the bare A was refused.
C23_Witness ==
    /\ last = [op |-> "set", res |-> "MultipleModulesLoaded"]
    /\ Len(modules) = 2
    /\ \A i \in 1..2 : IsUnitSlot(modules[i]) /\ "A" \in DOMAIN heap[modules[i].module[1]].args
    /\ heap[modules[1].module[1]].args["A"] = "v1"
    /\ heap[modules[2].module[1]].args["A"] = "d0"

\* C24: with no pipeline loaded, a set fails with NoModuleLoaded whatever
\* the name and the value, and changes nothing.
C24_SetWithoutPipeline ==
    [][\A name \in SetNames, v \in Values :
         (Len(modules) = 0 /\ last'.op = "set" /\ set(name, v))
         => /\ last'.res = "NoModuleLoaded"
            /\ UNCHANGED <<modules, heap, loaded_shortcuts, runPos, carried, runLog, prevRun>>
            /\ UNCHANGED taskVars
            /\ UNCHANGED cfgVars]_vars

\* C24 happens: a set was refused for want of a pipeline.
C24_Witness ==
    /\ last = [op |-> "set", res |-> "NoModuleLoaded"]
    /\ modules = <<>>
    /\ heap = <<>>

\* The number of calls of postrun among the hooks called.
Postruns(hooks) == Cardinality({n \in 1..Len(hooks) : hooks[n] = "postrun"})

\* C25: a stage in whose prerun or run a keyboard interrupt or an EOF was
\* raised has had its postrun called once, after the hook that was
\* interrupted; the interrupt has left run, and the stage is the last one
\* executed.
C25_InterruptEndsRun ==
    \A k \in 1..Len(runLog) :
        (runLog[k].raised # None /\ runLog[k].at \in {"prerun", "run"})
        => /\ Postruns(runLog[k].hooks) = 1
           /\ runLog[k].hooks[Len(runLog[k].hooks)] = "postrun"
           /\ runLog[k].raised[1] \in Interrupts
           /\ k = Len(runLog)
           /\ runPos = Done(runLog[k].raised)

\* C25 happens: the second of three stages, the first member of an alias,
\* was interrupted in its prerun; the third has not been executed.
C25_Witness ==
    /\ Len(runLog) = 2
    /\ runLog[2].raised = Some("KeyboardInterrupt")
    /\ runLog[2].hooks = <<"prerun", "postrun">>
    /\ runLog[2].j = 1 /\ Len(modules[runLog[2].i].shortcut) = 2
    /\ runPos = Done(Some("KeyboardInterrupt"))

LastSet(n, key) ==
    LET S == {m \in 1..(n - 1) : cfgLog[m].op = "set" /\ cfgLog[m].key = key}
    IN IF S = {} THEN 0 ELSE CHOOSE m \in S : \A o \in S : o <= m

\* C27, as claimed: a get returns the value of the last set of its key,
\* and the default it was given if the key was never set.
C27_GetAfterSet ==
    \A n \in 1..Len(cfgLog) :
        cfgLog[n].op = "get"
        => cfgLog[n].res = IF LastSet(n, cfgLog[n].key) # 0
                           THEN cfgLog[LastSet(n, cfgLog[n].key)].arg
                           ELSE cfgLog[n].arg

\* C27, amended: a get returns the value of the last set of its key; for
\* a key never set it returns the value the configuration was created
\* with, and the default it was given if the configuration had none.
C27_GetAfterSetOrCreated ==
    \A n \in 1..Len(cfgLog) :
        cfgLog[n].op = "get"
        => cfgLog[n].res = IF LastSet(n, cfgLog[n].key) # 0
                           THEN cfgLog[LastSet(n, cfgLog[n].key)].arg
                           ELSE IF cfgLog[n].key \in DOMAIN DefaultConfig
                           THEN DefaultConfig[cfgLog[n].key]
                           ELSE cfgLog[n].arg

\* C27 happens: a key not in the configuration was read (the default came
\* back), set, set again and read: the second value came back.
C27_Witness ==
    /\ Len(cfgLog) = 4
    /\ cfgLog[1] = [op |-> "get", key |-> "test_key", arg |-> "fallback", res |-> "fallback"]
    /\ cfgLog[2].op = "set" /\ cfgLog[2].key = "test_key" /\ cfgLog[2].arg = "test_value"
    /\ cfgLog[3].op = "set" /\ cfgLog[3].key = "test_key" /\ cfgLog[3].arg = "DEBUG"
    /\ cfgLog[4] = [op |-> "get", key |-> "test_key", arg |-> "None", res |-> "DEBUG"]

\* Whether the unit of stage k takes a carried key K: it declares K or
\* accepts undeclared arguments.
Accepts(k, K) ==
    heap[runLog[k].id].dynamicArgs \/ K \in DOMAIN heap[runLog[k].id].args

\* The keys the stages of the run have given as output.
OutputKeys == UNION {DOMAIN runLog[n].output : n \in 1..Len(runLog)}

\* C28: during a run the carried outputs are, key by key, the output of
\* the latest stage that succeeded with that key (a failed stage adds
\* nothing), and a stage that takes a key some earlier stage succeeded
\* with was executed with the value of the latest of them.
C28_LastWriterWins ==
    /\ \A K \in OutputKeys \cup DOMAIN carried :
          LET w == LastWriter(Len(runLog) + 1, K) IN
          IF w = 0 THEN K \notin DOMAIN carried
          ELSE K \in DOMAIN carried /\ carried[K] = runLog[w].output[K]
    /\ \A k \in 1..Len(runLog) : \A K \in OutputKeys :
          (LastWriter(k, K) # 0 /\ Accepts(k, K))
          => /\ K \in DOMAIN runLog[k].args
             /\ runLog[k].args[K] = runLog[LastWriter(k, K)].output[K]

\* C28 happens: two stages succeeded, the first with A and K, the second
\* with another A: the carried A is the second's and K is still the
\* first's.
C28_Witness ==
    /\ Len(runLog) = 2
    /\ runLog[1].success /\ runLog[2].success
    /\ runLog[1].output = [A |-> "o2", K |-> "o2"]
    /\ runLog[2].output = [A |-> "o1"]
    /\ carried = [A |-> "o1", K |-> "o2"]

\* C29: no step of a run adds or removes an argument name of a unit that
\* does not accept undeclared arguments, whatever keys are carried; the
\* unit of the stage that accepts them gets the carried keys, and no
\* step changes the arguments of a unit other than the stage's.
C29_UndeclaredNotWritten ==
    [][(runPos.pc # "idle" \/ runPos'.pc # "idle")
       => /\ DOMAIN heap' = DOMAIN heap
          /\ \A id \in DOMAIN heap :
                /\ ~heap[id].dynamicArgs => DOMAIN heap'[id].args = DOMAIN heap[id].args
                /\ heap[id].dynamicArgs
                   => DOMAIN heap'[id].args \subseteq (DOMAIN heap[id].args) \cup DOMAIN carried
                /\ heap'[id].args # heap[id].args
                   => /\ StageSlot(runPos.i, runPos.j).module = Some(id)
                      /\ \A a \in DOMAIN heap[id].args :
                            heap'[id].args[a] # heap[id].args[a]
                            => a \in DOMAIN carried /\ heap'[id].args[a] = carried[a]]_vars

\* C29 happens: a unit that declares A and not K was executed while A and
\* K were carried: it has the carried A and no K.
C29_Witness ==
    /\ Len(runLog) = 2
    /\ runLog[1].success /\ runLog[1].output = [A |-> "o2", K |-> "o2"]
    /\ ~heap[runLog[2].id].dynamicArgs
    /\ runLog[2].args["A"] = "o2"
    /\ "K" \notin DOMAIN heap[runLog[2].id].args
    /\ "K" \in DOMAIN carried

C31_ReservedKeyToDeviceTable ==
    [][\A name \in SeedSetNames, v \in Values :
         (/\ Len(modules) = 1 /\ IsUnitSlot(modules[1])
          /\ JoinDot(name) \in SDR_PARAMETERS
          /\ JoinDot(name) \notin DOMAIN heap[modules[1].module[1]].args
          /\ ~heap[modules[1].module[1]].dynamicArgs
          /\ last'.op = "set"
          /\ set(name, v))
         => LET id == modules[1].module[1]
                unit == heap[id]
                key == JoinDot(name)
            IN IF unit.wireless
               THEN /\ last'.res = "True"
                    /\ DOMAIN heap'[id].sdrConfig = (DOMAIN unit.sdrConfig) \cup {key}
                    /\ heap'[id].sdrConfig[key] = v
                    /\ \A k \in (DOMAIN unit.sdrConfig) \ {key} :
                          heap'[id].sdrConfig[k] = unit.sdrConfig[k]
                    /\ heap'[id].args = unit.args
                    /\ loaded_shortcuts' = loaded_shortcuts
               ELSE /\ last'.res = "IncorrectParameter"
                    /\ heap' = heap
                    /\ loaded_shortcuts' = loaded_shortcuts]_vars

\* C31 happens: the wireless unit w has GAIN in its device configuration
\* and its argument table has the one argument it declares, with the
\* value a set gave it.
C31_Witness ==
    /\ last = [op |-> "set", res |-> "True"]
    /\ Len(modules) = 1 /\ IsUnitSlot(modules[1])
    /\ heap[modules[1].module[1]].wireless
    /\ heap[modules[1].module[1]].sdrConfig = [GAIN |-> "v2"]
    /\ heap[modules[1].module[1]].args = [A |-> "v1"]

\* Whether the Task object s is registered under name n.
Registered(n, s) == n \in DOMAIN tasks /\ tasks[n].self = s

\* C32: with the task processes scheduled, a Task object that is
\* registered and running is eventually seen in state ended through
\* getTaskState, unless it leaves the registry first (it was stopped or
\* replaced); and an ended Task object is seen ended as long as it is
\* registered.
C32_TaskEventuallyEnded ==
    /\ \A n \in PossibleNames : \A s \in 1..(MaxTasks + 1) :
          (Registered(n, s) /\ getTaskState(n) = "running")
          ~> ((Registered(n, s) /\ getTaskState(n) = "ended") \/ ~Registered(n, s))
    /\ [][\A n \in DOMAIN tasks :
            (/\ getTaskState(n) = "ended"
             /\ n \in DOMAIN tasks'
             /\ tasks'[n].self = tasks[n].self)
            => getTaskState(n)' = "ended"]_vars

\* C32 happens: the last call of the orchestrator started a task, and the
\* task is registered and ended, its process having exited by itself.
C32_Witness ==
    /\ ret.op = "startTask" /\ ret.res = "True"
    /\ Registered(ret.name, 1)
    /\ getTaskState(ret.name) = "ended"
    /\ procs[tasks[ret.name].pid[1]].status = "exited"

\* Whether the units of h have, for every stage of the last run, the
\* values that stage wrote from the carried outputs.
KeptArgs(h) ==
    \A n \in 1..Len(prevRun) :
        /\ prevRun[n].id \in DOMAIN h
        /\ \A arg \in DOMAIN prevRun[n].written :
              /\ arg \in DOMAIN h[prevRun[n].id].args
              /\ h[prevRun[n].id].args[arg] = prevRun[n].written[arg]

\* Whether no command was issued since the last run ended.
JustRan == Idle /\ last.op = "run"

\* C33: as long as nothing is loaded, the instance a stage of a run
\* executes is the one the last run executed at the same place of the
\* pipeline, and it is the instance installed at that place; when a run
\* has ended, and when the next run starts with no command in between,
\* every argument a stage wrote from the carried outputs has the value
\* written.
C33_SecondRunSameUnits ==
    /\ [](/\ \A k \in 1..Len(runLog) :
              /\ StageSlot(runLog[k].i, runLog[k].j).module = Some(runLog[k].id)
              /\ \A n \in 1..Len(prevRun) :
                    (runLog[k].i = prevRun[n].i /\ runLog[k].j = prevRun[n].j)
                    => runLog[k].id = prevRun[n].id
          /\ \A n \in 1..Len(prevRun) :
                StageSlot(prevRun[n].i, prevRun[n].j).module = Some(prevRun[n].id)
          /\ JustRan => KeptArgs(heap))
    /\ [][(JustRan /\ last'.op = "run" /\ ~Idle')
           => (KeptArgs(heap)' /\ modules' = modules /\ prevRun' = prevRun)]_vars

\* C33 happens: in the first run the second stage was executed with the
\* A the first stage gave; the second run's first stage, the same
\* instance as before, gave nothing, and the unit of the second stage,
\* about to be executed again, still has that A.
C33_Witness ==
    /\ runPos.pc = "stage"
    /\ Len(prevRun) = 2 /\ Len(runLog) = 1
    /\ runLog[1].id = prevRun[1].id
    /\ runLog[1].success /\ runLog[1].output = <<>>
    /\ runPos.i = prevRun[2].i /\ runPos.j = prevRun[2].j
    /\ StageSlot(runPos.i, runPos.j).module = Some(prevRun[2].id)
    /\ prevRun[2].written = [A |-> "o1"]
    /\ heap[prevRun[2].id].args["A"] = "o1"

\* C34: the process of a registered task exists only when "running" has
\* been written (a task that has a live process is seen running), and a
\* task whose process has left run, having written its final state, is
\* seen ended and not running; between the two statements of start the
\* task is running and has no process yet.
C34_RunningBeforeEnded ==
    /\ \A n \in DOMAIN tasks :
          IF tasks[n].pid = None
          THEN getTaskState(n) = "running" <=> mgr = [pc |-> "start", name |-> n]
          ELSE /\ procs[tasks[n].pid[1]].status = "alive" => getTaskState(n) = "running"
               /\ procs[tasks[n].pid[1]].status = "exited" => getTaskState(n) = "ended"
    /\ mgr.pc = "start" => mgr.name \in DOMAIN tasks

\* C34 happens: a task's process has ended while the orchestrator is
\* between the two statements of the start of another task.
C34_Witness ==
    /\ mgr.pc = "start"
    /\ getTaskState(mgr.name) = "running" /\ tasks[mgr.name].pid = None
    /\ \E n \in DOMAIN tasks :
          /\ getTaskState(n) = "ended"
          /\ procs[tasks[n].pid[1]].status = "exited"

\* C35: with two or more slots, a set of "<prefix>.<parameter>" whose
\* prefix is the display name of no slot changes nothing (no argument of
\* a unit, no value of the alias table, not the pipeline) and raises
\* nothing: _set returns None and set reports no failure.
C35_UnknownPrefixIgnored ==
    [][\A name \in SetNames, v \in Values :
         (/\ Len(modules) >= 2
          /\ Len(name) = 2
          /\ \A i \in 1..Len(modules) : modules[i].name # name[1]
          /\ last'.op = "set"
          /\ set(name, v))
         => /\ last'.res = "None"
            /\ last'.res \notin Exceptions
            /\ heap' = heap
            /\ loaded_shortcuts' = loaded_shortcuts
            /\ modules' = modules]_vars

\* C35 happens: a set ended with _set returning None on a pipeline of an
\* alias slot and a unit slot, the unit of which has the A it was
\* constructed with.
C35_Witness ==
    /\ last = [op |-> "set", res |-> "None"]
    /\ Len(modules) = 2
    /\ IsAliasSlot(modules[1]) /\ IsUnitSlot(modules[2])
    /\ heap[modules[2].module[1]].args = NewModule(heap[modules[2].module[1]].cls).args

\* C36: a load writes no value of the alias table, and showargs shows
\* for every alias slot it installs the values the table had before it
\* (what the last successful set left, not the configured default); with
\* two or more slots, a set that succeeds through one alias slot is shown
\* by every other slot of the same alias, whose members it leaves as
\* they were.
C36_SharedMapping ==
    [][/\ \A expr \in SeedLoadExprs :
            (last'.op = "load" /\ load(expr))
            => /\ \A m \in DOMAIN loaded_shortcuts :
                     \A key \in DOMAIN loaded_shortcuts[m].mapping :
                        loaded_shortcuts'[m].mapping[key].value
                            = loaded_shortcuts[m].mapping[key].value
               /\ \A i \in 1..Len(modules') :
                     IsAliasSlot(modules'[i])
                     => \A key \in DOMAIN loaded_shortcuts[modules'[i].mapping].mapping :
                           LET value == loaded_shortcuts[modules'[i].mapping].mapping[key].value
                           IN ShownValue(modules[i], key)'
                                = IF value # None THEN value[1] ELSE "<auto>"
       /\ \A name \in SeedSetNames, v \in Values :
            (/\ Len(modules) >= 2 /\ Len(name) = 2
             /\ last'.op = "set" /\ last'.res = "True"
             /\ set(name, v))
            => \A i, j \in 1..Len(modules) :
                  (/\ i # j
                   /\ IsAliasSlot(modules[i]) /\ IsAliasSlot(modules[j])
                   /\ modules[i].name = name[1]
                   /\ modules[j].mapping = modules[i].mapping)
                  => /\ ShownValue(modules[j], name[2])' = v
                     /\ \A id \in IdsOfSlot(modules[j]) : heap'[id] = heap[id]]_vars

\* C36 happens: the alias s4 is loaded twice after its A was set to v1,
\* and A was then set to v2 through the first slot: both slots show v2,
\* the unit of the first has v2 and the unit of the second still has
\* the v1 it was loaded with.
C36_Witness ==
    /\ last = [op |-> "set", res |-> "True"]
    /\ Len(modules) = 2
    /\ \A i \in 1..2 : IsAliasSlot(modules[i]) /\ modules[i].mapping = "s4"
    /\ ShownValue(modules[1], "A") = "v2" /\ ShownValue(modules[2], "A") = "v2"
    /\ heap[modules[1].shortcut[1].module[1]].args = [A |-> "v2", B |-> "v2"]
    /\ heap[modules[2].shortcut[1].module[1]].args = [A |-> "v1", B |-> "d0"]
====
